---------------------------- MODULE Spec2Model ----------------------------
(***************************************************************************)
(* Fuzzy-logic traffic light controller.                                   *)
(*                                                                         *)
(*   fuzzy_traffic_controller.py  FuzzyTrafficController: the Mamdani      *)
(*                                decision engine (compute_green_time)     *)
(*   traffic_simulation.py        TrafficSimulation: the four-phase        *)
(*                                sequencer driven by the simulator clock  *)
(*   build_network.py             the signal shown by each phase index     *)
(*                                                                         *)
(* Numbers.  The engine works on floats; the model computes the same       *)
(* quantities exactly, as fractions.  A membership degree is an integer    *)
(* over the common denominator D = 900 * wd (wd the denominator of the     *)
(* waiting time), a point of the green_time universe is an integer over D, *)
(* an output membership value is an integer over 300 * D, and the crisp    *)
(* result is a fraction num/den of arbitrary-precision naturals, because   *)
(* the moment sums exceed 32 bits.                                         *)
(***************************************************************************)
EXTENDS Integers, Sequences, FiniteSets, TLC

Max(a, b) == IF a >= b THEN a ELSE b
Min(a, b) == IF a <= b THEN a ELSE b

(***************************************************************************)
(* Arbitrary-precision naturals: little-endian sequences of limbs in       *)
(* 0 .. BigBase-1, without leading zero limbs; <<>> is zero.               *)
(***************************************************************************)
BigBase == 10 * 10 * 10

RECURSIVE BigCarry(_, _)
BigCarry(s, c) ==
    IF s = <<>>
    THEN IF c = 0 THEN <<>> ELSE <<c % BigBase>> \o BigCarry(<<>>, c \div BigBase)
    ELSE LET t == Head(s) + c
         IN  <<t % BigBase>> \o BigCarry(Tail(s), t \div BigBase)

RECURSIVE BigStrip(_)
BigStrip(s) ==
    IF s = <<>> THEN <<>>
    ELSE IF s[Len(s)] = 0 THEN BigStrip(SubSeq(s, 1, Len(s) - 1))
    ELSE s

BigFromInt(n) == BigCarry(<<>>, n)

RECURSIVE BigAddC(_, _, _)
BigAddC(a, b, c) ==
    IF a = <<>> THEN BigCarry(b, c)
    ELSE IF b = <<>> THEN BigCarry(a, c)
    ELSE LET t == Head(a) + Head(b) + c
         IN  <<t % BigBase>> \o BigAddC(Tail(a), Tail(b), t \div BigBase)

BigAdd(a, b) == BigAddC(a, b, 0)

RECURSIVE BigMulC(_, _, _)
BigMulC(a, m, c) ==
    IF a = <<>> THEN BigCarry(<<>>, c)
    ELSE LET t == Head(a) * m + c
         IN  <<t % BigBase>> \o BigMulC(Tail(a), m, t \div BigBase)

\* a * m for an ordinary natural m <= 2000000 (limb * m + carry fits 32 bits)
BigMulSmall(a, m) == IF m = 0 THEN <<>> ELSE BigMulC(a, m, 0)

BigShift(a) == IF a = <<>> THEN <<>> ELSE <<0>> \o a

RECURSIVE BigMul(_, _)
BigMul(a, b) ==
    IF b = <<>> \/ a = <<>> THEN <<>>
    ELSE BigAdd(BigMulSmall(a, Head(b)), BigShift(BigMul(a, Tail(b))))

RECURSIVE BigCmpFrom(_, _, _)
BigCmpFrom(a, b, i) ==
    IF i = 0 THEN 0
    ELSE IF a[i] < b[i] THEN -1
    ELSE IF a[i] > b[i] THEN 1
    ELSE BigCmpFrom(a, b, i - 1)

\* -1, 0, 1 as a < b, a = b, a > b
BigCmp(a, b) ==
    IF Len(a) < Len(b) THEN -1
    ELSE IF Len(a) > Len(b) THEN 1
    ELSE BigCmpFrom(a, b, Len(a))

BigLeq(a, b) == BigCmp(a, b) <= 0

\* fractions num/den of big naturals, den > 0
Frac(n, d) == [num |-> n, den |-> d]
FracOfInt(n) == Frac(BigFromInt(n), BigFromInt(1))
FracLeq(x, y) == BigLeq(BigMul(x.num, y.den), BigMul(y.num, x.den))
\* n <= x and x <= n for an ordinary natural n
IntLeqFrac(n, x) == BigLeq(BigMulSmall(x.den, n), x.num)
FracLeqInt(x, n) == BigLeq(x.num, BigMulSmall(x.den, n))


(***************************************************************************)
(* The decision engine: FuzzyTrafficController.                            *)
(***************************************************************************)
SetMax(S) == CHOOSE m \in S : \A x \in S : x <= m
SetMin(S) == CHOOSE m \in S : \A x \in S : m <= x

\* universes of the three variables (np.arange(0, 51, 1), (0, 301, 1), (10, 91, 1))
QueueMax == 50
WaitMax == 300
GreenMin == 10
GreenMax == 90

\* membership functions with 'low' ending where 'medium' begins
queue_length_gap == [low |-> <<0, 0, 10>>, medium |-> <<10, 25, 40>>, high |-> <<35, 50, 50>>]

\* membership functions, each a triangle [a, b, c]
queue_length == [low |-> <<0, 0, 15>>, medium |-> <<10, 25, 40>>, high |-> <<35, 50, 50>>]
waiting_time == [short |-> <<0, 0, 100>>, medium |-> <<60, 150, 240>>, long |-> <<200, 300, 300>>]
green_time == [short |-> <<10, 10, 30>>, medium |-> <<25, 50, 75>>, long |-> <<60, 90, 90>>]
GreenLabels == {"short", "medium", "long"}

\* a slip in the rule table: low & long gives long instead of medium
rulesSlip ==
    << <<"low", "short", "short">>,     <<"low", "medium", "short">>,
       <<"low", "long", "long">>,       <<"medium", "short", "medium">>,
       <<"medium", "medium", "medium">>, <<"medium", "long", "long">>,
       <<"high", "short", "medium">>,   <<"high", "medium", "long">>,
       <<"high", "long", "long">> >>

\* <<queue_length label, waiting_time label, green_time label>>
rules ==
    << <<"low", "short", "short">>,     <<"low", "medium", "short">>,
       <<"low", "long", "medium">>,     <<"medium", "short", "medium">>,
       <<"medium", "medium", "medium">>, <<"medium", "long", "long">>,
       <<"high", "short", "medium">>,   <<"high", "medium", "long">>,
       <<"high", "long", "long">> >>

\* common denominator of the membership degrees for a waiting time over wd,
\* and the further factor of the output membership values
DegreeDenom(wd) == 900 * wd
OutFactor == 20 * 15

\* fuzz.trimf(universe, [a, b, c]) read at x = xn/xd (interp_membership is
\* linear between the integer points of the universe, where the triangle
\* has its corners): the degree times scale; (b-a)*xd and (c-b)*xd divide scale
trimf(xn, xd, abc, scale) ==
    LET a == abc[1]  b == abc[2]  c == abc[3]
    IN  IF xn = b * xd THEN scale
        ELSE IF a # b /\ a * xd < xn /\ xn < b * xd
             THEN (xn - a * xd) * (scale \div ((b - a) * xd))
        ELSE IF b # c /\ b * xd < xn /\ xn < c * xd
             THEN (c * xd - xn) * (scale \div ((c - b) * xd))
        ELSE 0

\* Rule: antecedent q-label & w-label, AND is the minimum
Firing(r, q, wn, wd) ==
    Min(trimf(q, 1, queue_length[r[1]], DegreeDenom(wd)),
        trimf(wn, wd, waiting_time[r[2]], DegreeDenom(wd)))

\* compute_rule: the rules of one consequent label accumulate by maximum
Accumulate(t, q, wn, wd) ==
    SetMax({Firing(rules[i], q, wn, wd) :
                i \in {j \in 1..Len(rules) : rules[j][3] = t}})

Aggregate(q, wn, wd) ==
    [short |-> Accumulate("short", q, wn, wd),
     medium |-> Accumulate("medium", q, wn, wd),
     long |-> Accumulate("long", q, wn, wd)]

\* find_memberships: the points where a label's triangle meets its cut level
\* are added to the universe (points over D)
CrossPoints(abc, cut, D) ==
    LET a == abc[1]  b == abc[2]  c == abc[3]
    IN  (IF a # b THEN {a * D + (b - a) * cut} ELSE {})
        \cup (IF b # c THEN {c * D - (c - b) * cut} ELSE {})

AddedPoints(cuts, D) ==
    UNION {CrossPoints(green_time[t], cuts[t], D) : t \in GreenLabels}

\* the aggregated output membership at the point X/D, times OutFactor * D:
\* every label clipped at its cut, the labels joined by maximum
Clipped(t, X, cuts, D) ==
    Min(OutFactor * cuts[t], trimf(X, D, green_time[t], OutFactor * D))

OutputMf(X, cuts, D) ==
    Max(Clipped("short", X, cuts, D),
        Max(Clipped("medium", X, cuts, D), Clipped("long", X, cuts, D)))

\* the point of the upsampled universe that follows X
NextPoint(X, added, D) ==
    LET g == (X \div D + 1) * D
        S == {p \in added : p > X /\ p < g}
    IN  IF S = {} THEN g ELSE SetMin(S)

\* defuzz 'centroid': over consecutive points (x1,y1), (x2,y2) of the
\* upsampled universe the area of the trapezoid and its moment.  Segment is
\* <<6*D*moment*area, 2*area>> of one pair of points, in the scaled units;
\* a pair with y1 = y2 = 0 adds nothing
Segment(X1, V1, X2, V2) ==
    IF V1 = 0 /\ V2 = 0 THEN << <<>>, <<>> >>
    ELSE << BigMulSmall(BigAdd(BigMulSmall(BigFromInt(V1), 2 * X1 + X2),
                               BigMulSmall(BigFromInt(V2), X1 + 2 * X2)),
                        X2 - X1),
            BigMulSmall(BigFromInt(V1 + V2), X2 - X1) >>

PairAdd(s, t) == << BigAdd(s[1], t[1]), BigAdd(s[2], t[2]) >>

\* the segments from the point X1, where the membership is V1, up to the
\* integer point Xend
RECURSIVE SegmentsTo(_, _, _, _, _, _)
SegmentsTo(X1, V1, Xend, added, cuts, D) ==
    IF X1 >= Xend THEN << <<>>, <<>> >>
    ELSE LET X2 == NextPoint(X1, added, D)
             V2 == OutputMf(X2, cuts, D)
         IN  PairAdd(Segment(X1, V1, X2, V2),
                     SegmentsTo(X2, V2, Xend, added, cuts, D))

\* the sums over the universe between the integers lo and hi (the loop of
\* centroid(), summed by halves)
RECURSIVE centroid(_, _, _, _, _)
centroid(lo, hi, added, cuts, D) ==
    IF hi - lo <= 1
    THEN SegmentsTo(lo * D, OutputMf(lo * D, cuts, D), hi * D, added, cuts, D)
    ELSE LET mid == (lo + hi) \div 2
         IN  PairAdd(centroid(lo, mid, added, cuts, D),
                     centroid(mid, hi, added, cuts, D))

\* ControlSystemSimulation.compute + output['green_time'] for the clamped
\* inputs q and wn/wd: the crisp value, or raised when the aggregated
\* membership is zero everywhere (defuzz: 'Total area is zero')
Defuzz(cuts, D) ==
    LET s == centroid(GreenMin, GreenMax, AddedPoints(cuts, D), cuts, D)
    IN  IF s[2] = <<>>
        THEN [raised |-> TRUE, num |-> <<>>, den |-> <<>>]
        ELSE [raised |-> FALSE, num |-> s[1],
              den |-> BigMulSmall(BigMulSmall(s[2], 3), D)]

\* the call without its two clamping lines
compute_green_time_unclamped(queue_len, wn, wd) ==
    Defuzz(Aggregate(queue_len, wn, wd), DegreeDenom(wd))

\* the call with the upper clamps only (max(0, ...) forgotten)
compute_green_time_upper_only(queue_len, wn, wd) ==
    Defuzz(Aggregate(Min(QueueMax, queue_len), Min(WaitMax * wd, wn), wd),
           DegreeDenom(wd))

compute_green_time(queue_len, wn, wd) ==
    LET q == Max(0, Min(QueueMax, queue_len))
        w == Max(0, Min(WaitMax * wd, wn))
    IN  Defuzz(Aggregate(q, w, wd), DegreeDenom(wd))


(***************************************************************************)
(* The sensor: TrafficSimulation.get_lane_metrics over the lanes of one    *)
(* direction.  A lane is [halting |-> n, waits |-> the waiting times of    *)
(* the vehicles on it]; a world gives every lane its contents.             *)
(***************************************************************************)
lanes == [NS |-> <<"N2C_0", "N2C_1", "S2C_0", "S2C_1">>,
          EW |-> <<"E2C_0", "E2C_1", "W2C_0", "W2C_1">>]

RECURSIVE SumSeq(_)
SumSeq(s) == IF s = <<>> THEN 0 ELSE Head(s) + SumSeq(Tail(s))

RECURSIVE Gcd(_, _)
Gcd(a, b) == IF b = 0 THEN a ELSE Gcd(b, a % b)

\* the quotient n / d as a fraction in lowest terms <<n', d'>> (a float has
\* one value whatever quotient produced it); <<0, 0>> stands for the
\* ZeroDivisionError of n / 0
Quotient(n, d) == IF d = 0 THEN <<0, 0>> ELSE << n \div Gcd(n, d), d \div Gcd(n, d) >>

\* the loop over the lanes, from lane i on
RECURSIVE LaneTotals(_, _, _)
LaneTotals(ls, world, i) ==
    IF i > Len(ls) THEN [total_queue |-> 0, total_waiting |-> 0, vehicle_count |-> 0]
    ELSE LET rest == LaneTotals(ls, world, i + 1)
             lane == world[ls[i]]
         IN  [total_queue |-> lane.halting + rest.total_queue,
              total_waiting |-> SumSeq(lane.waits) + rest.total_waiting,
              vehicle_count |-> Len(lane.waits) + rest.vehicle_count]

\* get_lane_metrics dividing without looking at vehicle_count
get_lane_metrics_unguarded(ls, world) ==
    LET t == LaneTotals(ls, world, 1)
        avg_waiting == Quotient(t.total_waiting, t.vehicle_count)
    IN  [queue |-> t.total_queue, wait |-> avg_waiting, raised |-> avg_waiting[2] = 0]

\* returns [queue |-> total_queue, wait |-> avg_waiting as a fraction,
\* raised |-> whether the division raised instead]
get_lane_metrics(ls, world) ==
    LET t == LaneTotals(ls, world, 1)
        avg_waiting == IF t.vehicle_count > 0
                       THEN Quotient(t.total_waiting, t.vehicle_count)
                       ELSE <<0, 1>>
    IN  [queue |-> t.total_queue, wait |-> avg_waiting, raised |-> avg_waiting[2] = 0]


\* lane contents the simulator may report
EmptyLane == [halting |-> 0, waits |-> <<>>]
\* what the four lanes of one direction hold: nothing; a busy approach
\* (25 halting, average wait 601/4 s); a jam beyond both universes
\* (60 halting, average wait 400 s)
Profiles ==
    { << EmptyLane, EmptyLane, EmptyLane, EmptyLane >>,
      << [halting |-> 7, waits |-> <<100, 201>>], [halting |-> 6, waits |-> <<150>>],
         [halting |-> 6, waits |-> <<150>>], [halting |-> 6, waits |-> <<>>] >>,
      << [halting |-> 15, waits |-> <<400>>], [halting |-> 15, waits |-> <<400>>],
         [halting |-> 15, waits |-> <<400>>], [halting |-> 15, waits |-> <<400>>] >> }

LaneNames == {lanes.NS[i] : i \in 1..Len(lanes.NS)} \cup {lanes.EW[i] : i \in 1..Len(lanes.EW)}

WorldOf(ns, ew) ==
    [l \in LaneNames |->
        IF \E i \in 1..Len(lanes.NS) : lanes.NS[i] = l
        THEN ns[CHOOSE i \in 1..Len(lanes.NS) : lanes.NS[i] = l]
        ELSE ew[CHOOSE i \in 1..Len(lanes.EW) : lanes.EW[i] = l]]

Worlds == {WorldOf(ns, ew) : ns \in Profiles, ew \in Profiles}
QuietWorld == [l \in LaneNames |-> EmptyLane]

\* the vehicles in the network at a tick, by their waiting times
VehicleLists == { <<>>, <<0>> }

(***************************************************************************)
(* The sequencer: TrafficSimulation.                                       *)
(***************************************************************************)
\* the phase table with two indices exchanged
phasesExchanged == [NS_green |-> 0, NS_yellow |-> 2, EW_green |-> 1, EW_yellow |-> 3]

phases == [NS_green |-> 0, NS_yellow |-> 1, EW_green |-> 2, EW_yellow |-> 3]
PhaseNames == {"NS_green", "NS_yellow", "EW_green", "EW_yellow"}
yellow_time == 3
DefaultGreen == 30

\* run_simulation(duration): the number of ticks of a short and of a long
\* run; the seconds the simulator clock may advance in one simulationStep
ShortRun == 36
LongRun == 125
MaxDt == 2

\* a light program whose NS clearance already shows EW green
SignalOverlap(dir, index) ==
    IF dir = "NS"
    THEN (IF index = 0 THEN "GREEN" ELSE IF index = 1 THEN "YELLOW" ELSE "RED")
    ELSE (IF index = 1 \/ index = 2 THEN "GREEN" ELSE IF index = 3 THEN "YELLOW" ELSE "RED")

\* the signal each phase index shows to a direction
Signal(dir, index) ==
    IF dir = "NS"
    THEN (IF index = 0 THEN "GREEN" ELSE IF index = 1 THEN "YELLOW" ELSE "RED")
    ELSE (IF index = 2 THEN "GREEN" ELSE IF index = 3 THEN "YELLOW" ELSE "RED")

VARIABLES
    current_phase,        \* self.current_phase
    phase_start_time,     \* self.phase_start_time
    current_green_time,   \* the local of run_simulation
    step,                 \* the local of run_simulation
    now,                  \* traci.simulation.getTime()
    stats,                \* self.stats
    tl_phase,             \* the phase index the traffic light "0" is in
    pc,                   \* "start" (before start_sumo), "loop", "closed"
                          \* (returned), "failed" (raised)
    commands,             \* history: number of setPhase commands issued
    queried,              \* history: the direction of every engine query
    sensed,               \* history: the world at the last engine query
    io,                   \* history: connections closed, statistics printed,
                          \* errors reported by the except clause, and the
                          \* call that failed
    args,                 \* engine checks: the argument lists of the calls
    results,              \* engine checks: what the calls returned
    duration              \* the argument of run_simulation

seqVars == << current_phase, phase_start_time, current_green_time, step, now,
              stats, tl_phase, pc, commands, queried, sensed, io >>
vars == << current_phase, phase_start_time, current_green_time, step, now,
           stats, tl_phase, pc, commands, queried, sensed, io, args, results, duration >>

\* the measurements the worlds can produce, and the engine's answer to each
Measurements ==
    {get_lane_metrics(lanes[d], w) : d \in {"NS", "EW"}, w \in Worlds}
GreenTimes ==
    {<<m, compute_green_time(m.queue, m.wait[1], m.wait[2])>> : m \in Measurements}
\* the waiting time taken for the green time
GreenTimeForWait(m) ==
    [raised |-> FALSE, num |-> BigFromInt(m.wait[1]), den |-> BigFromInt(m.wait[2])]

GreenTimeFor(m) == (CHOOSE p \in GreenTimes : p[1] = m)[2]

\* the comparisons written with > for >=
GreenExpiredLate(elapsed, green) == ~ BigLeq(BigMulSmall(green.den, elapsed), green.num)
YellowExpiredLate(elapsed) == elapsed > yellow_time

\* elapsed >= current_green_time, elapsed >= self.yellow_time
\* the yellow comparison written with == for >=
YellowExpiredExactly(elapsed) == elapsed = yellow_time

GreenExpired(elapsed, green) == FracLeqInt(green, elapsed)
YellowExpired(elapsed) == elapsed >= yellow_time

\* a finally clause that prints the statistics and leaves the connection open
FinallyPrintOnly(h) == [h EXCEPT !.prints = @ + 1]

\* lines 140-142: the finally clause closes the connection and prints the
\* statistics
Finally(h) == [h EXCEPT !.closes = @ + 1, !.prints = @ + 1]

\* the lanes of the other direction
LanesOfOther(direction) == IF direction = "NS" THEN lanes.EW ELSE lanes.NS

LanesOf(direction) == lanes[direction]

\* returns the green time and the sample it appends to the statistics
compute_optimal_green_time(direction, world) ==
    LET m == get_lane_metrics(LanesOf(direction), world)
    IN  [green_time |-> GreenTimeFor(m), queue_length |-> m.queue,
         waiting_time |-> m.wait]

set_traffic_light_phase(phase_name, time) ==
    /\ tl_phase' = phases[phase_name]
    /\ commands' = commands + 1
    /\ current_phase' = phase_name
    /\ phase_start_time' = time

\* What a call into the simulator raises: a FatalTraCIError, which the except
\* clause of run_simulation reports, or a TraCIException, which it lets
\* through to the caller.  io.fault names the method whose call raised:
\* "step" for run_simulation itself, "sensor" for get_lane_metrics,
\* "actuator" for set_traffic_light_phase.
Kinds == {"TraCIException", "FatalTraCIError"}

\* an except clause that catches everything and goes on with the loop
LeaveSwallowed(point, kind) ==
    /\ pc' = pc
    /\ io' = [io EXCEPT !.fault = point]

\* lines 138-142: how the exception leaves the loop
Leave(point, kind) ==
    /\ pc' = IF kind = "FatalTraCIError" THEN "closed" ELSE "failed"
    /\ io' = Finally([io EXCEPT !.fault = point,
                                !.errors = IF kind = "FatalTraCIError" THEN @ + 1 ELSE @])

\* the reads of lines 130-134 all return, or getIDList raises, or the
\* getWaitingTime of the vehicle at index raises
NoFault == [at |-> "none", kind |-> "none", index |-> 0]
TailFaults(vehicles) ==
    {[at |-> "getIDList", kind |-> k, index |-> 0] : k \in Kinds}
    \cup {[at |-> "getWaitingTime", kind |-> k, index |-> i] :
              k \in Kinds, i \in 1..Len(vehicles)}

\* lines 130-134: the per-tick vehicle statistics, as far as they get
VehicleStats(st, vehicles, fault) ==
    IF fault.at = "getIDList" THEN st
    ELSE IF fault.at = "getWaitingTime"
    THEN [st EXCEPT !.total_vehicles = Len(vehicles),
                    !.total_waiting_time = @ + SumSeq(SubSeq(vehicles, 1, fault.index - 1))]
    ELSE [st EXCEPT !.total_vehicles = Len(vehicles),
                    !.total_waiting_time = @ + SumSeq(vehicles)]

\* line 136, or the exception of lines 130-134 leaving the loop before it
EndOfTick(fault) ==
    IF fault.at = "none"
    THEN step' = step + 1 /\ UNCHANGED << pc, io >>
    ELSE step' = step /\ Leave("step", fault.kind)

\* a tick that restarts the phase clock although nothing expired
NoTransitionRestart(vehicles, fault) ==
    /\ stats' = VehicleStats(stats, vehicles, fault)
    /\ EndOfTick(fault)
    /\ phase_start_time' = now'
    /\ UNCHANGED << current_phase, current_green_time,
                    tl_phase, commands, queried, sensed >>

NoTransition(vehicles, fault) ==
    /\ stats' = VehicleStats(stats, vehicles, fault)
    /\ EndOfTick(fault)
    /\ UNCHANGED << current_phase, phase_start_time, current_green_time,
                    tl_phase, commands, queried, sensed >>

\* the green followed at once by the other direction's green
GreenToGreen(phase_name, time, vehicles, fault) ==
    /\ set_traffic_light_phase(IF phase_name = "NS_yellow" THEN "EW_green" ELSE "NS_green",
                               time)
    /\ stats' = VehicleStats([stats EXCEPT !.phase_changes = @ + 1], vehicles, fault)
    /\ EndOfTick(fault)
    /\ UNCHANGED << current_green_time, queried, sensed >>

\* the transition without its phase_changes line
GreenToYellowUncounted(phase_name, time, vehicles, fault) ==
    /\ set_traffic_light_phase(phase_name, time)
    /\ stats' = VehicleStats(stats, vehicles, fault)
    /\ EndOfTick(fault)
    /\ UNCHANGED << current_green_time, queried, sensed >>

GreenToYellow(phase_name, time, vehicles, fault) ==
    /\ set_traffic_light_phase(phase_name, time)
    /\ stats' = VehicleStats([stats EXCEPT !.phase_changes = @ + 1], vehicles, fault)
    /\ EndOfTick(fault)
    /\ UNCHANGED << current_green_time, queried, sensed >>

YellowToGreen(direction, phase_name, time, vehicles, world, fault) ==
    LET r == compute_optimal_green_time(direction, world)
    IN  /\ queried' = Append(queried, direction)
        /\ sensed' = world
        /\ IF r.green_time.raised
           THEN \* ValueError leaves the loop through finally and propagates
                /\ pc' = "failed"
                /\ io' = Finally(io)
                /\ UNCHANGED << current_phase, phase_start_time, current_green_time,
                                step, stats, tl_phase, commands >>
           ELSE /\ current_green_time' = r.green_time
                /\ set_traffic_light_phase(phase_name, time)
                /\ stats' = VehicleStats(
                        [stats EXCEPT !.avg_queue_lengths = Append(@, r.queue_length),
                                      !.avg_waiting_times = Append(@, r.waiting_time)],
                        vehicles, fault)
                /\ EndOfTick(fault)

\* one iteration of the while loop at simulator time current_time
LoopBody(current_time, vehicles, world, fault) ==
    LET elapsed == current_time - phase_start_time
    IN  /\ now' = current_time
        /\ IF current_phase = "NS_green"
           THEN IF GreenExpired(elapsed, current_green_time)
                THEN GreenToYellow("NS_yellow", current_time, vehicles, fault)
                ELSE NoTransition(vehicles, fault)
           ELSE IF current_phase = "NS_yellow"
           THEN IF YellowExpired(elapsed)
                THEN YellowToGreen("EW", "EW_green", current_time, vehicles, world, fault)
                ELSE NoTransition(vehicles, fault)
           ELSE IF current_phase = "EW_green"
           THEN IF GreenExpired(elapsed, current_green_time)
                THEN GreenToYellow("EW_yellow", current_time, vehicles, fault)
                ELSE NoTransition(vehicles, fault)
           ELSE IF current_phase = "EW_yellow"
           THEN IF YellowExpired(elapsed)
                THEN YellowToGreen("NS", "NS_green", current_time, vehicles, world, fault)
                ELSE NoTransition(vehicles, fault)
           ELSE NoTransition(vehicles, fault)

\* the sensor is read only when a yellow ends; on every other tick the
\* world is not looked at and one world stands for all
WorldsReadOf(current_time, worlds) ==
    IF current_phase \in {"NS_yellow", "EW_yellow"}
       /\ YellowExpired(current_time - phase_start_time)
    THEN worlds ELSE {QuietWorld}

WorldsRead(current_time) == WorldsReadOf(current_time, Worlds)

\* the object as constructed and the locals of run_simulation
Constructed ==
    /\ current_phase = "NS_green"
    /\ phase_start_time = 0
    /\ current_green_time = [raised |-> FALSE, num |-> BigFromInt(DefaultGreen),
                             den |-> BigFromInt(1)]
    /\ step = 0
    /\ now = 0
    /\ stats = [total_waiting_time |-> 0, total_vehicles |-> 0, phase_changes |-> 0,
                avg_queue_lengths |-> <<>>, avg_waiting_times |-> <<>>]
    /\ tl_phase \in 0..3
    /\ commands = 0
    /\ queried = <<>>
    /\ sensed = QuietWorld
    /\ io = [closes |-> 0, prints |-> 0, errors |-> 0, fault |-> "none"]

\* start_sumo has returned and the loop is about to begin
SeqInit == Constructed /\ pc = "loop"

Init ==
    /\ SeqInit
    /\ args = <<>>
    /\ results = <<>>
    /\ duration = ShortRun

Tick ==
    /\ pc = "loop"
    /\ step < duration
    /\ \E dt \in 1..MaxDt, vehicles \in VehicleLists :
          \E world \in WorldsRead(now + dt) :
              LoopBody(now + dt, vehicles, world, NoFault)
    /\ UNCHANGED << args, results, duration >>

\* the loop ends: finally closes the connection and prints the statistics
Finish ==
    /\ pc = "loop"
    /\ step >= duration
    /\ pc' = "closed"
    /\ io' = Finally(io)
    /\ UNCHANGED << current_phase, phase_start_time, current_green_time, step, now,
                    stats, tl_phase, commands, queried, sensed, args, results, duration >>

Next == Tick \/ Finish

Spec == Init /\ [][Next]_vars

(***************************************************************************)
(* Runs in which a call fails.  run_simulation begins with start_sumo      *)
(* (line 93), outside its try block: when SUMO_HOME is not set it calls    *)
(* sys.exit (line 48), and traci.start (line 56) may raise.  Either way    *)
(* the exception leaves run_simulation with no iteration made, no          *)
(* connection closed and no statistics printed.                            *)
(***************************************************************************)
InitFaults ==
    /\ Constructed
    /\ pc = "start"
    /\ args = <<>>
    /\ results = <<>>
    /\ duration = ShortRun

\* start_sumo returns
StartSumo ==
    /\ pc = "start"
    /\ pc' = "loop"
    /\ UNCHANGED << current_phase, phase_start_time, current_green_time, step, now,
                    stats, tl_phase, commands, queried, sensed, io, args, results,
                    duration >>

\* start_sumo exits or raises: no except or finally clause is around it
StartFault ==
    /\ pc = "start"
    /\ pc' = "failed"
    /\ io' = [io EXCEPT !.fault = "start"]
    /\ UNCHANGED << current_phase, phase_start_time, current_green_time, step, now,
                    stats, tl_phase, commands, queried, sensed, args, results,
                    duration >>

(***************************************************************************)
(* Ticks on which a call into the simulator raises.  The call is the       *)
(* simulation step or the reading of the clock (lines 102-103), a sensor   *)
(* read in get_lane_metrics (lines 64-69), the phase command or the        *)
(* reading of the clock after it (lines 88, 90), or a read of the vehicle  *)
(* statistics (lines 130, 134).                                            *)
(***************************************************************************)
StepFault ==
    /\ pc = "loop"
    /\ step < duration
    /\ \E kind \in Kinds : Leave("step", kind)
    /\ UNCHANGED << current_phase, phase_start_time, current_green_time, step, now,
                    stats, tl_phase, commands, queried, sensed, args, results, duration >>

\* a yellow has expired and get_lane_metrics raises: nothing was assigned
SensorFault ==
    /\ pc = "loop"
    /\ step < duration
    /\ \E dt \in 1..MaxDt, kind \in Kinds :
          /\ current_phase \in {"NS_yellow", "EW_yellow"}
          /\ YellowExpired(now + dt - phase_start_time)
          /\ now' = now + dt
          /\ Leave("sensor", kind)
    /\ UNCHANGED << current_phase, phase_start_time, current_green_time, step,
                    stats, tl_phase, commands, queried, sensed, args, results, duration >>

\* a phase has expired and set_traffic_light_phase raises.  When setPhase
\* (line 88) raises, current_phase and phase_start_time are not assigned;
\* when the reading of the clock after it (line 90) raises, the command was
\* carried out and current_phase assigned, phase_start_time is not.
\* phase_changes is not incremented; when a yellow has expired the engine
\* has been queried before
ActuatorFault ==
    /\ pc = "loop"
    /\ step < duration
    /\ \E dt \in 1..MaxDt, kind \in Kinds, line \in {88, 90} :
        \E world \in WorldsRead(now + dt) :
          LET elapsed == now + dt - phase_start_time
              next == IF current_phase = "NS_green" THEN "NS_yellow"
                      ELSE IF current_phase = "NS_yellow" THEN "EW_green"
                      ELSE IF current_phase = "EW_green" THEN "EW_yellow"
                      ELSE "NS_green"
          IN  /\ now' = now + dt
              /\ Leave("actuator", kind)
              /\ IF line = 88
                 THEN UNCHANGED << current_phase, tl_phase, commands >>
                 ELSE /\ tl_phase' = phases[next]
                      /\ commands' = commands + 1
                      /\ current_phase' = next
              /\ IF current_phase \in {"NS_green", "EW_green"}
                 THEN /\ GreenExpired(elapsed, current_green_time)
                      /\ UNCHANGED << current_green_time, stats, queried, sensed >>
                 ELSE LET d == IF current_phase = "NS_yellow" THEN "EW" ELSE "NS"
                          r == compute_optimal_green_time(d, world)
                      IN  /\ YellowExpired(elapsed)
                          /\ ~ r.green_time.raised
                          /\ queried' = Append(queried, d)
                          /\ sensed' = world
                          /\ current_green_time' = r.green_time
                          /\ stats' = [stats EXCEPT
                                          !.avg_queue_lengths = Append(@, r.queue_length),
                                          !.avg_waiting_times = Append(@, r.waiting_time)]
    /\ UNCHANGED << phase_start_time, step, args, results, duration >>

\* the if/elif chain has run and getIDList (line 130) or a getWaitingTime
\* (line 134) raises: step is not incremented
VehicleFault ==
    /\ pc = "loop"
    /\ step < duration
    /\ \E dt \in 1..MaxDt, vehicles \in VehicleLists :
          \E world \in WorldsRead(now + dt), fault \in TailFaults(vehicles) :
              LoopBody(now + dt, vehicles, world, fault)
    /\ UNCHANGED << args, results, duration >>

NextFaults ==
    \/ StartSumo \/ StartFault
    \/ Tick \/ StepFault \/ SensorFault \/ ActuatorFault \/ VehicleFault \/ Finish

SpecFaults == InitFaults /\ [][NextFaults]_vars

\* line 101: the loop has another iteration to make
LoopGuard == pc = "loop" /\ step < duration

(***************************************************************************)
(* A long run: run_simulation(LongRun), long enough for both directions to *)
(* have green several times with the longest green times the engine gives. *)
(* The lanes the sensor reads are busy in both directions, which gives the *)
(* long green times, and no vehicle statistics are gathered.               *)
(***************************************************************************)
BusyWorlds == {WorldOf(p, p) : p \in {q \in Profiles : q[1].halting > 0}}

InitLong ==
    /\ SeqInit
    /\ args = <<>>
    /\ results = <<>>
    /\ duration = LongRun

LongTick ==
    /\ pc = "loop"
    /\ step < duration
    /\ \E dt \in 1..MaxDt :
          \E world \in WorldsReadOf(now + dt, BusyWorlds) :
              LoopBody(now + dt, <<>>, world, NoFault)
    /\ UNCHANGED << args, results, duration >>

NextLong == LongTick \/ Finish

SpecLong == InitLong /\ [][NextLong]_vars

(***************************************************************************)
(* Calls of the engine on their own.  A call is [queue_len |-> q,          *)
(* wait |-> <<wn, wd>>] for compute_green_time(q, wn/wd); Compute makes    *)
(* the calls of args in order and records what they return.                *)
(***************************************************************************)
Call(q, wn, wd) == [queue_len |-> q, wait |-> <<wn, wd>>]

\* how far the inputs go beyond the universes, and the spacing of the
\* waiting times tried
QueueMargin == 3
WaitStride == 3
MonoStride == 20

ProbeQueues == (0 - QueueMargin) .. (QueueMax + QueueMargin)
ProbeWaits ==
    {<<WaitStride * k, 1>> : k \in (0 - 2) .. (WaitMax \div WaitStride + 2)}
    \cup {<<0, 1>>, <<WaitMax, 1>>, <<1, 2>>, <<601, 4>>, <<599, 2>>, <<601, 2>>,
          <<100, 1>>, <<200, 1>>}

MonoWaits == {MonoStride * k : k \in 0 .. (WaitMax \div MonoStride)} \cup {WaitMax}
LowRegion == 0..10
HighRegion == 40..50

Compute ==
    /\ args # <<>>
    /\ results = <<>>
    /\ results' = [i \in 1..Len(args) |->
                      compute_green_time(args[i].queue_len, args[i].wait[1],
                                         args[i].wait[2])]
    /\ UNCHANGED << args, duration, seqVars >>

InitEngine ==
    /\ SeqInit
    /\ tl_phase = 0
    /\ args \in {<<Call(q, w[1], w[2])>> : q \in ProbeQueues, w \in ProbeWaits}
    /\ results = <<>>
    /\ duration = ShortRun

SpecEngine == InitEngine /\ [][Compute]_vars

\* pairs of calls: a low and a high queue at one waiting time, and the
\* anchor points of the controller's own test cases
InitMono ==
    /\ SeqInit
    /\ tl_phase = 0
    /\ args \in {<<Call(q1, w, 1), Call(q2, w, 1)>> :
                    q1 \in LowRegion, q2 \in HighRegion, w \in MonoWaits}
                \cup {<<Call(5, 30, 1), Call(25, 150, 1)>>,
                      <<Call(25, 150, 1), Call(45, 250, 1)>>}
    /\ results = <<>>
    /\ duration = ShortRun

SpecMono == InitMono /\ [][Compute]_vars

(***************************************************************************)
(* Reads of the sensor on their own: the lanes hold any contents up to     *)
(* MaxHalting halting vehicles and the waiting times of WaitLists, and     *)
(* Measure calls get_lane_metrics for one direction.                       *)
(***************************************************************************)
MaxHalting == 1
WaitLists == { <<>>, <<0>>, <<7>>, <<3, 4>> }
LaneContents == {[halting |-> h, waits |-> ws] : h \in 0..MaxHalting, ws \in WaitLists}

Measure(direction) ==
    /\ results = <<>>
    /\ args' = << direction >>
    /\ results' = << get_lane_metrics(lanes[direction], sensed) >>
    /\ UNCHANGED << current_phase, phase_start_time, current_green_time, step, now,
                    stats, tl_phase, pc, commands, queried, sensed, io, duration >>

InitSensor ==
    /\ current_phase = "NS_green"
    /\ phase_start_time = 0
    /\ current_green_time = [raised |-> FALSE, num |-> BigFromInt(DefaultGreen),
                             den |-> BigFromInt(1)]
    /\ step = 0
    /\ now = 0
    /\ stats = [total_waiting_time |-> 0, total_vehicles |-> 0, phase_changes |-> 0,
                avg_queue_lengths |-> <<>>, avg_waiting_times |-> <<>>]
    /\ tl_phase = 0
    /\ pc = "loop"
    /\ commands = 0
    /\ queried = <<>>
    /\ io = [closes |-> 0, prints |-> 0, errors |-> 0, fault |-> "none"]
    /\ sensed \in {WorldOf(ns, << c, EmptyLane, EmptyLane, c >>) :
                       ns \in LaneContents \X LaneContents \X LaneContents \X LaneContents,
                       c \in {EmptyLane, [halting |-> 1, waits |-> <<3, 4>>]}}
    /\ args = <<>>
    /\ results = <<>>
    /\ duration = ShortRun

NextSensor == \E direction \in {"NS", "EW"} : Measure(direction)

SpecSensor == InitSensor /\ [][NextSensor]_vars

(***************************************************************************)
(* Properties.                                                             *)
(***************************************************************************)
Greens == {"NS_green", "EW_green"}
Yellows == {"NS_yellow", "EW_yellow"}
NonRed(dir, index) == Signal(dir, index) # "RED"

\* C1: in every reachable state the sequencer's phase is one of the four
\* phases, NS is non-red only in NS_green/NS_yellow and EW only in
\* EW_green/EW_yellow, and neither the phase the sequencer is in nor the phase
\* the light is in shows both directions non-red.
C1_Safety ==
    /\ current_phase \in PhaseNames
    /\ NonRed("NS", phases[current_phase]) <=> current_phase \in {"NS_green", "NS_yellow"}
    /\ NonRed("EW", phases[current_phase]) <=> current_phase \in {"EW_green", "EW_yellow"}
    /\ \A index \in {tl_phase, phases[current_phase]} :
          ~ (NonRed("NS", index) /\ NonRed("EW", index))

C1_Witness ==
    /\ current_phase = "EW_yellow"
    /\ tl_phase = 3
    /\ Signal("EW", tl_phase) = "YELLOW"
    /\ Signal("NS", tl_phase) = "RED"

CycleOrder == << "NS_green", "NS_yellow", "EW_green", "EW_yellow" >>
CycleSuccessor(p) ==
    IF p = "NS_green" THEN "NS_yellow"
    ELSE IF p = "NS_yellow" THEN "EW_green"
    ELSE IF p = "EW_green" THEN "EW_yellow"
    ELSE "NS_green"

C2_Cycle_Step ==
        /\ current_phase' # current_phase =>
              /\ current_phase' = CycleSuccessor(current_phase)
              /\ commands' = commands + 1
        /\ ~ (current_phase \in Greens /\ current_phase' \in Greens
              /\ current_phase' # current_phase)
        /\ current_phase' = CycleOrder[(commands' % 4) + 1]
        /\ (commands' % 4 = 0) <=> (current_phase' = "NS_green")

\* C2: every phase change goes to the successor in the cycle NS_green ->
\* NS_yellow -> EW_green -> EW_yellow -> NS_green, a green is never followed
\* by the other green, and after n transitions from NS_green the phase is the
\* one n steps round the cycle (so every 4 transitions return to NS_green).
C2_Cycle == [][C2_Cycle_Step]_vars

C2_Witness ==
    /\ commands = 4
    /\ current_phase = "NS_green"
    /\ phase_start_time > 0

C3_Original_Step ==
        (current_phase \in Yellows /\ current_phase' \in Greens) =>
            phase_start_time' - phase_start_time = 3

\* C3 as claimed: whatever the clock does, the green that follows a yellow is
\* entered exactly yellow_time = 3 seconds after the yellow was entered.
C3_Original == [][C3_Original_Step]_vars

C3_YellowFixed_Step ==
        current_phase \in Yellows =>
          /\ now - phase_start_time < 3
          /\ current_phase' # current_phase =>
                /\ current_phase' \in Greens
                /\ phase_start_time' = now'
                /\ now' - phase_start_time >= 3
          /\ (step' = step + 1 /\ now' - phase_start_time >= 3) =>
                current_phase' # current_phase
          /\ now' = phase_start_time + 3 =>
                /\ current_phase' \in Greens
                /\ phase_start_time' - phase_start_time = 3

\* C3 amended: a yellow phase ends at the first tick at which current_time -
\* phase_start_time >= 3, whatever the engine returns: it is not left before,
\* it is left on the tick that reaches 3 seconds, and it lasts exactly 3
\* seconds whenever the clock ticks 3 seconds after the yellow was entered.
C3_YellowFixed == [][C3_YellowFixed_Step]_vars

C3_Witness ==
    /\ current_phase = "NS_green"
    /\ commands = 4
    /\ now = phase_start_time
    /\ stats.avg_queue_lengths[1] # stats.avg_queue_lengths[2]

YellowOf(p) == IF p = "NS_green" THEN "NS_yellow" ELSE "EW_yellow"

C4_GreenEnds_Step ==
        /\ (current_phase \in Greens /\ step' = step + 1) =>
              /\ ~ FracLeqInt(current_green_time, now - phase_start_time)
              /\ IF FracLeqInt(current_green_time, now' - phase_start_time)
                 THEN /\ current_phase' = YellowOf(current_phase)
                      /\ phase_start_time' = now'
                 ELSE /\ current_phase' = current_phase
                      /\ phase_start_time' = phase_start_time
        /\ now' < 30 => (current_phase' = "NS_green" /\ phase_start_time' = 0)
        /\ (commands = 0 /\ now' = 30) =>
              (current_phase' = "NS_yellow" /\ phase_start_time' = 30)
        /\ (current_phase = "NS_yellow" /\ phase_start_time = 30 /\ now' = 33) =>
              (current_phase' = "EW_green" /\ phase_start_time' = 33)

\* C4: on every tick in a green phase, the phase is left, to the yellow of the
\* same direction, exactly when current_time - phase_start_time has reached the
\* green duration in effect, so no green state has overstayed; from the
\* initial state the phase stays NS_green before t=30, the tick at t=30 moves
\* to NS_yellow and the tick at t=33 moves to EW_green.
C4_GreenEnds == [][C4_GreenEnds_Step]_vars

C4_Witness ==
    /\ current_phase = "EW_green"
    /\ phase_start_time = 33
    /\ commands = 2

DirectionOf(p) == IF p \in {"NS_green", "NS_yellow"} THEN "NS" ELSE "EW"
Last(s) == s[Len(s)]

C5_EngineQuery_Step ==
        /\ IF current_phase \in Yellows /\ current_phase' \in Greens
           THEN LET d == DirectionOf(current_phase')
                    m == get_lane_metrics(lanes[d], sensed')
                IN  /\ d # DirectionOf(current_phase)
                    /\ queried' = Append(queried, d)
                    /\ current_green_time' = GreenTimeFor(m)
                    /\ Last(stats'.avg_queue_lengths) = m.queue
                    /\ Last(stats'.avg_waiting_times) = m.wait
           ELSE /\ queried' = queried
                /\ current_green_time' = current_green_time
                /\ sensed' = sensed
        /\ Len(queried') = commands' \div 2

\* C5: the engine is queried on the yellow->green transitions and on no other
\* step, once each, for the direction about to turn green; the green duration
\* becomes the engine's value for that direction's lanes in the world sensed,
\* the sample recorded is that direction's measurement, and on every other
\* step the green duration is unchanged.
C5_EngineQuery == [][C5_EngineQuery_Step]_vars

C5_Witness ==
    /\ queried = << "EW", "NS" >>
    /\ current_phase = "NS_green"
    /\ get_lane_metrics(lanes.NS, sensed) # get_lane_metrics(lanes.EW, sensed)
    /\ current_green_time = GreenTimeFor(get_lane_metrics(lanes.NS, sensed))

PhaseIndex(p) ==
    IF p = "NS_green" THEN 0 ELSE IF p = "NS_yellow" THEN 1
    ELSE IF p = "EW_green" THEN 2 ELSE 3

C6_Actuator_Step ==
        /\ current_phase' # current_phase =>
              (commands' = commands + 1 /\ tl_phase' = PhaseIndex(current_phase'))
        /\ current_phase' = current_phase =>
              (commands' = commands /\ tl_phase' = tl_phase)
        /\ commands' > 0 => tl_phase' = PhaseIndex(current_phase')

\* C6: a step that changes the phase issues exactly one command, carrying the
\* index of the new phase (NS_green=0, NS_yellow=1, EW_green=2, EW_yellow=3);
\* a step that does not change it issues none; so once a command has been
\* issued the light's phase index is the index of the sequencer's phase.
C6_Actuator == [][C6_Actuator_Step]_vars

C6_Witness ==
    /\ commands = 3
    /\ tl_phase = 3
    /\ current_phase = "EW_yellow"
    /\ now > phase_start_time

\* C7: every call of compute_green_time, for inputs inside, on the boundary of
\* and outside [0,50] x [0,300], returns a value, and the value is in [10,90].
C7_Bounded ==
    \A i \in 1..Len(results) :
        /\ ~ results[i].raised
        /\ IntLeqFrac(10, results[i])
        /\ FracLeqInt(results[i], 90)

C7_Witness ==
    /\ results # <<>>
    /\ args[1].queue_len > 50
    /\ args[1].wait[1] < 0
    /\ ~ results[1].raised

\* C8: compute_green_time(q, w) returns a value and it is the value the
\* inference gives for min(50, max(0, q)) and min(300, max(0, w)): inputs
\* outside the universes are clamped, not rejected.
C8_Clamped ==
    \A i \in 1..Len(results) :
        LET q == args[i].queue_len
            wn == args[i].wait[1]
            wd == args[i].wait[2]
            cq == IF q < 0 THEN 0 ELSE IF q > 50 THEN 50 ELSE q
            cw == IF wn < 0 THEN 0 ELSE IF wn > 300 * wd THEN 300 * wd ELSE wn
        IN  /\ ~ results[i].raised
            /\ results[i] = Defuzz(Aggregate(cq, cw, wd), DegreeDenom(wd))

C8_Witness ==
    /\ results # <<>>
    /\ args[1].queue_len < 0
    /\ args[1].wait[1] > 300 * args[1].wait[2]
    /\ results[1] = Defuzz(Aggregate(0, 300, 1), DegreeDenom(1))

\* C10: at one waiting time a queue in the low region (0..10, where only
\* 'low' has membership) never gets a longer green than a queue in the high
\* region (40..50, where only 'high' has membership), and the anchor points
\* are ordered: (5,30) <= (25,150) <= (45,250).
C10_Monotonic ==
    /\ \A q \in LowRegion :
          /\ trimf(q, 1, queue_length.low, 900) > 0
          /\ trimf(q, 1, queue_length.medium, 900) = 0
          /\ trimf(q, 1, queue_length.high, 900) = 0
    /\ \A q \in HighRegion :
          /\ trimf(q, 1, queue_length.low, 900) = 0
          /\ trimf(q, 1, queue_length.medium, 900) = 0
          /\ trimf(q, 1, queue_length.high, 900) > 0
    /\ results # <<>> =>
          /\ ~ results[1].raised
          /\ ~ results[2].raised
          /\ FracLeq(results[1], results[2])

C10_Witness ==
    /\ results # <<>>
    /\ args[1].queue_len = 10
    /\ args[2].queue_len = 40
    /\ args[1].wait = <<300, 1>>
    /\ ~ FracLeq(results[2], results[1])


\* C12 as claimed: once a sensor read has failed on an expired yellow, the
\* loop is still running, the next green has been entered and the green
\* duration is the one of the cycle before.
C12_SensorRecoverable ==
    io.fault = "sensor" =>
        /\ pc = "loop"
        /\ current_phase \in Greens
        /\ phase_start_time = now

\* C13: once a phase command has failed, the loop has been left and no step of
\* the program is possible any more (no tick, so no command), the failure
\* has been raised to the caller or reported by the except clause, the
\* connection is closed, and the phase is one of the four phases, the one
\* last commanded to the light when a command has been carried out.
C13_ActuatorHalts ==
    io.fault = "actuator" =>
        /\ pc \in {"failed", "closed"}
        /\ ~ ENABLED NextFaults
        /\ pc = "failed" \/ io.errors = 1
        /\ io.closes = 1
        /\ current_phase \in PhaseNames
        /\ commands > 0 => tl_phase = phases[current_phase]
        /\ now > phase_start_time

C13_Witness ==
    /\ io.fault = "actuator"
    /\ pc = "closed"
    /\ current_phase = "NS_yellow"
    /\ commands = 1
    /\ Len(queried) = 1

\* the totals of a direction's lanes in the world sensed
HaltingOf(direction) ==
    SumSeq([i \in 1..Len(lanes[direction]) |-> sensed[lanes[direction][i]].halting])
VehiclesOf(direction) ==
    SumSeq([i \in 1..Len(lanes[direction]) |-> Len(sensed[lanes[direction][i]].waits)])
WaitingOf(direction) ==
    SumSeq([i \in 1..Len(lanes[direction]) |-> SumSeq(sensed[lanes[direction][i]].waits)])

\* C14: for any contents of the lanes get_lane_metrics returns without a
\* division by zero; the queue is the sum of the halting counts of the
\* direction's lanes; the average is the total waiting time over the number of
\* vehicles present, and 0 when none is present; empty lanes give (0, 0).
C14_Metrics ==
    results # <<>> =>
        LET d == args[1]
            m == results[1]
        IN  /\ ~ m.raised
            /\ m.queue = HaltingOf(d)
            /\ m.wait[2] > 0
            /\ m.wait[1] * VehiclesOf(d) = WaitingOf(d) * m.wait[2]
            /\ VehiclesOf(d) = 0 => m.wait = <<0, 1>>
            /\ (VehiclesOf(d) = 0 /\ HaltingOf(d) = 0) => (m.queue = 0 /\ m.wait = <<0, 1>>)

C14_Witness ==
    /\ results # <<>>
    /\ args[1] = "NS"
    /\ VehiclesOf("NS") = 0
    /\ HaltingOf("NS") = 2
    /\ VehiclesOf("EW") = 4
    /\ results[1].queue = 2
    /\ results[1].wait = <<0, 1>>

C15_Frame_Step ==
    step' = step + 1 =>
        LET elapsed == now' - phase_start_time
            expired == IF current_phase \in Greens
                       THEN BigLeq(current_green_time.num,
                                   BigMulSmall(current_green_time.den, elapsed))
                       ELSE elapsed >= 3
        IN  /\ ~ expired =>
                  /\ current_phase' = current_phase
                  /\ phase_start_time' = phase_start_time
                  /\ current_green_time' = current_green_time
                  /\ stats'.phase_changes = stats.phase_changes
                  /\ stats'.avg_queue_lengths = stats.avg_queue_lengths
                  /\ stats'.avg_waiting_times = stats.avg_waiting_times
                  /\ commands' = commands
                  /\ tl_phase' = tl_phase
                  /\ queried' = queried
            /\ current_phase' \in {current_phase, CycleSuccessor(current_phase)}
            /\ commands' - commands <= 1
            /\ Len(queried') - Len(queried) <= 1
            /\ stats'.phase_changes - stats.phase_changes <= 1
            /\ (commands' = commands) <=> (current_phase' = current_phase)

\* C15: a tick makes at most one transition (one command at most, to the
\* successor phase at most, even when more than one phase length has gone
\* by), and a tick on which the current phase has not expired leaves the
\* phase, phase_start_time, the green duration, the phase-change counter and
\* the samples as they were, sends no command and makes no engine query.
C15_Frame == [][C15_Frame_Step]_vars

C15_Witness ==
    /\ current_phase = "EW_yellow"
    /\ commands = 3
    /\ now = phase_start_time + 2
    /\ Len(queried) = 1
    /\ stats.phase_changes = 2

QueueLabels == {"low", "medium", "high"}
WaitLabels == {"short", "medium", "long"}

\* C16: for every call, at the clamped inputs some queue_length label and
\* some waiting_time label have positive membership, some rule fires with
\* positive strength, some output label is cut above 0, and the call returns
\* with a centroid whose denominator is not 0.
C16_Coverage ==
    \A i \in 1..Len(args) :
        LET wd == args[i].wait[2]
            q == Max(0, Min(50, args[i].queue_len))
            w == Max(0, Min(300 * wd, args[i].wait[1]))
            D == DegreeDenom(wd)
        IN  /\ \E l \in QueueLabels : trimf(q, 1, queue_length[l], D) > 0
            /\ \E l \in WaitLabels : trimf(w, wd, waiting_time[l], D) > 0
            /\ \E r \in 1..Len(rules) : Firing(rules[r], q, w, wd) > 0
            /\ \E t \in GreenLabels : Aggregate(q, w, wd)[t] > 0
            /\ i <= Len(results) =>
                  /\ ~ results[i].raised
                  /\ BigStrip(results[i].den) # BigFromInt(0)

C16_Witness ==
    /\ results # <<>>
    /\ args[1].queue_len = 10
    /\ args[1].wait = <<100, 1>>
    /\ Cardinality({l \in QueueLabels : trimf(10, 1, queue_length[l], 900) > 0}) = 1
    /\ Cardinality({l \in WaitLabels : trimf(100, 1, waiting_time[l], 900) > 0}) = 1
    /\ Cardinality({r \in 1..Len(rules) : Firing(rules[r], 10, 100, 1) > 0}) = 1

NoFailure == io.fault = "none" /\ pc # "failed"

C17_Stats_Inv ==
    NoFailure =>
        /\ Len(stats.avg_queue_lengths) = Len(stats.avg_waiting_times)
        /\ Len(stats.avg_queue_lengths) = Len(queried)
        /\ stats.phase_changes + Len(queried) = commands
        /\ stats.phase_changes - Len(stats.avg_queue_lengths) \in {0, 1}
        /\ (stats.phase_changes - Len(stats.avg_queue_lengths) = 1)
              <=> (current_phase \in Yellows)
        /\ (stats.phase_changes - Len(stats.avg_queue_lengths) = 0)
              <=> (current_phase \in Greens)

C17_Stats_Step ==
    NoFailure' =>
        /\ stats'.phase_changes - stats.phase_changes =
              (IF current_phase \in Greens /\ current_phase' \in Yellows THEN 1 ELSE 0)
        /\ Len(stats'.avg_queue_lengths) - Len(stats.avg_queue_lengths) =
              (IF current_phase \in Yellows /\ current_phase' \in Greens THEN 1 ELSE 0)
        /\ Len(queried') - Len(queried) =
              (IF current_phase \in Yellows /\ current_phase' \in Greens THEN 1 ELSE 0)

\* C17: as long as nothing has failed, phase_changes grows by one on exactly
\* the green->yellow transitions, the two sample lists grow by one on exactly
\* the yellow->green transitions (the engine queries) and have the same
\* length, and phase_changes minus that length is 1 exactly in a yellow
\* phase and 0 exactly in a green phase.
C17_Stats == [] C17_Stats_Inv /\ [][C17_Stats_Step]_vars

C17_Witness ==
    /\ NoFailure
    /\ current_phase = "EW_yellow"
    /\ stats.phase_changes = 2
    /\ Len(stats.avg_queue_lengths) = 1
    /\ Len(stats.avg_waiting_times) = 1
    /\ step > 0

\* C18: in every state of run_simulation, whatever the sensor reported (an
\* empty direction, or 60 halting vehicles waiting 400 s on average), the
\* green duration in effect is the default 30 or the engine's value for the
\* sample recorded last, and it lies in [10,90].
C18_GreenInRange ==
    /\ ~ current_green_time.raised
    /\ IntLeqFrac(10, current_green_time)
    /\ FracLeqInt(current_green_time, 90)
    /\ IF queried = <<>>
       THEN current_green_time.num = BigFromInt(30) /\ current_green_time.den = BigFromInt(1)
       ELSE \E p \in GreenTimes :
               /\ p[1].queue = Last(stats.avg_queue_lengths)
               /\ p[1].wait = Last(stats.avg_waiting_times)
               /\ p[2] = current_green_time

C18_Witness ==
    /\ queried # <<>>
    /\ Last(stats.avg_queue_lengths) > 50
    /\ Last(stats.avg_waiting_times) = <<400, 1>>
    /\ current_phase \in Greens
    /\ ~ FracLeqInt(current_green_time, 30)

\* the longest a phase lasts: its length, 90 s at most for a green, and the
\* seconds by which the tick that ends it may come late
PhaseBound(p) == (IF p \in Greens THEN GreenMax ELSE yellow_time) + MaxDt - 1

\* the clock at which the phase entered by the n-th command has ended at the
\* latest: the first green of 30 s, then yellows and greens in turn
LatestEnd(n) ==
    DefaultGreen + MaxDt - 1
    + ((n + 1) \div 2) * PhaseBound("NS_yellow") + (n \div 2) * PhaseBound("NS_green")

\* the phase in effect has reached its length at the clock time
PhaseOver(time) ==
    IF current_phase \in Greens
    THEN FracLeqInt(current_green_time, time - phase_start_time)
    ELSE time - phase_start_time >= yellow_time

C19_Recurrence_Inv ==
    /\ now - phase_start_time <= PhaseBound(current_phase)
    /\ now <= LatestEnd(commands)

C19_Bounded_Step ==
    /\ step' # step => (step' = step + 1 /\ now' > now)
    /\ (step' # step /\ PhaseOver(now')) => current_phase' # current_phase
    /\ current_phase' # current_phase =>
          /\ current_phase' = CycleSuccessor(current_phase)
          /\ phase_start_time' = now'
          /\ now' - phase_start_time <= PhaseBound(current_phase)

\* C19: every tick the loop makes advances the clock, and a tick at which the
\* phase has reached its length leaves it, always for the next phase of the
\* cycle, so as long as ticks are made no phase lasts longer than
\* its length (90 s at most for a green, 3 s for a yellow) plus the lateness
\* of one tick.  Hence the phases are entered again and again at a rate the
\* clock bounds: when n phase changes have been made the clock is at most
\* LatestEnd(n), so every further 2 * (90 + 3) s, plus the lateness of four
\* ticks, see both greens entered once more, and a direction whose green has
\* ended has it again after two yellows and one green of the other direction.
C19_NoStarvation == [] C19_Recurrence_Inv /\ [][C19_Bounded_Step]_vars

\* EW_green holds for the second time and NS_green has held twice, all the
\* green times after the first being the longest the sensed lanes give
C19_Witness ==
    /\ current_phase = "EW_green"
    /\ pc = "loop"
    /\ commands = 6
    /\ Len(queried) = 3
    /\ \A i \in 1..3 : stats.avg_queue_lengths[i] = 60
    /\ ~ FracLeqInt(current_green_time, 79)
    /\ now >= 30 + 3 + 79 + 3 + 79 + 3

C20_Exit_Inv ==
    /\ step <= duration
    /\ pc \in {"start", "loop", "closed", "failed"}
    /\ pc \in {"start", "loop"} => (io.closes = 0 /\ io.prints = 0)
    /\ (pc \in {"closed", "failed"} /\ io.fault # "start") =>
          (io.closes = 1 /\ io.prints = 1)
    /\ (pc \in {"closed", "failed"} /\ io.fault = "none") =>
          (pc = "closed" /\ step = duration)
    /\ (pc \in {"closed", "failed"} /\ io.fault \notin {"none", "start"}) =>
          /\ step < duration
          /\ (pc = "closed") <=> (io.errors = 1)
    /\ io.fault = "start" =>
          /\ pc = "failed"
          /\ step = 0 /\ now = 0 /\ commands = 0
          /\ io.closes = 0 /\ io.prints = 0 /\ io.errors = 0
    /\ IF pc \in {"start", "loop"} THEN ENABLED NextFaults ELSE ~ ENABLED NextFaults

C20_Progress_Step ==
    \/ /\ pc = "start"
       /\ pc' \in {"loop", "failed"}
       /\ step' = step
    \/ /\ pc = "loop"
       /\ \/ pc' = "loop" /\ step' = step + 1 /\ io' = io
          \/ pc' # "loop" /\ step' = step

\* C20: run_simulation ends: before and in the loop a step is always
\* possible, every step of the loop either completes one more tick or leaves
\* the loop, and there are never more than duration ticks, exactly duration
\* when the loop is left with nothing failed; before the loop is left nothing
\* is closed or printed, and once it is left, by the end of the loop or by an
\* exception raised in it, the connection has been closed once and the
\* statistics printed once, and nothing more happens.  When start_sumo fails
\* the loop is never entered: run_simulation ends at once, with no
\* connection to close and nothing printed.
C20_Terminates == [] C20_Exit_Inv /\ [][C20_Progress_Step]_vars

C20_Witness ==
    /\ pc = "failed"
    /\ io.fault = "sensor"
    /\ io.closes = 1
    /\ io.prints = 1
    /\ step > 0
    /\ step < duration

=============================================================================
